---- MODULE Spec2Model ----
(***************************************************************************)
(* Model of the notebook RAPIDS_regex/RAPIDS-regex-email-addresses.ipynb:  *)
(* the data set-up cell, the loop that runs every candidate regex through  *)
(* pandas and cuDF and records the comparison, and the regex semantics of  *)
(* pandas' Series.str.match (Python's re module, which the notebook cites  *)
(* as the reference behaviour).                                            *)
(*                                                                         *)
(* A Python string is a sequence of one-character strings, so that a       *)
(* pattern can be scanned character by character as the regex parser does. *)
(***************************************************************************)
EXTENDS Integers, Sequences, FiniteSets, TLC

----------------------------------------------------------------------------
(* Characters.  The printable ASCII characters in code-point order; Ord is *)
(* Python's ord() on them (the first one, the space, is code point 32).    *)
(* "GRAVE" stands for the grave accent (code point 96), which cannot be     *)
(* written in a string here; no pattern or test string contains it.        *)
Printable ==
  <<
     " ", "!", "\"", "#", "$", "%", "&", "'", "(", ")", "*", "+", ",", "-", ".", "/",
     "0", "1", "2", "3", "4", "5", "6", "7", "8", "9", ":", ";", "<", "=", ">", "?",
     "@", "A", "B", "C", "D", "E", "F", "G", "H", "I", "J", "K", "L", "M", "N", "O",
     "P", "Q", "R", "S", "T", "U", "V", "W", "X", "Y", "Z", "[", "\\", "]", "^", "_",
     "GRAVE", "a", "b", "c", "d", "e", "f", "g", "h", "i", "j", "k", "l", "m", "n", "o",
     "p", "q", "r", "s", "t", "u", "v", "w", "x", "y", "z", "{", "|", "}", "~"
  >>

Chars ==
  {Printable[i] : i \in 1..Len(Printable)}

CodePoint ==
  [c \in Chars |-> 31 + (CHOOSE i \in 1..Len(Printable) : Printable[i] = c)]

Ord(c) ==
  CodePoint[c]

----------------------------------------------------------------------------
(* The data of cell 1600cf6c and the patterns of cell 69308302.            *)

\* a str object of the list
PyStr(s) ==
  [tag |-> "str", val |-> s]

\* the float nan object of the list
np_nan ==
  [tag |-> "float", val |-> <<>>]

test_data_list ==
  <<
     PyStr(<<"j", "o", "h", "n", ".", "s", "m", "i", "t", "h", "@", "e", "x", "a", "m", "p", "l", "e", ".", "c", "o", "m">>),
     np_nan,
     PyStr(<<"t", "e", "a", "m", "@", "d", "o", "m", "a", "i", "n", ".", "c", "o", "m">>),
     PyStr(<<"j", "u", "n", "k", "@", "e", "x", "a", "m", "p", "l", "e", ".", "c", "o", "m">>),
     PyStr(<<"h", "i", "t", "h", "e", "r", "e", "@", "w", "h", "a", "t", "s", "u", "p", ".", "y", "o">>),
     PyStr(<<"h", "i", "-", "t", "h", "e", "r", "e", "@", "w", "h", "a", "t", "s", "u", "p", ".", "y", "o">>),
     PyStr(<<"h", "i", "t", "h", "e", "r", "e", "@", "w", "h", "a", "t", "s", "-", "u", "p", ".", "y", "o">>),
     PyStr(<<"h", "i", "-", "t", "h", "e", "r", "e", "@", "w", "h", "a", "t", "s", "-", "u", "p", ".", "y", "o">>),
     PyStr(<<"h", "i", ".", "t", "h", "e", "r", "e", "@", "w", "h", "a", "t", "s", "u", "p", ".", "y", "o">>),
     PyStr(<<"h", "i", "t", "h", "e", "r", "e", "@", "w", "h", "a", "t", "s", ".", "u", "p", ".", "y", "o">>),
     PyStr(<<"h", "i", ".", "t", "h", "e", "r", "e", "@", "w", "h", "a", "t", "s", ".", "u", "p", ".", "y", "o">>),
     PyStr(<<"h", "i", "_", "t", "h", "e", "r", "e", "@", "w", "h", "a", "t", "s", ".", "u", "p", ".", "y", "o">>),
     PyStr(<<"h", "i", "_", "t", "h", "e", "r", "e", "@", "w", "h", "a", "t", "s", "_", "u", "p", ".", "y", "o">>)
  >>

candidate_regexes ==
  <<
     <<"(", "^", "[", "a", "-", "z", "A", "-", "Z", "0", "-", "9", "_", ".", "+", "-", "]", "+", "@", "[", "a", "-", "z", "A", "-", "Z", "0", "-", "9", "-", "]", "+", "\\", ".", "[", "a", "-", "z", "A", "-", "Z", "0", "-", "9", "-", ".", "]", "+", "$", ")">>,
     <<"(", "^", "[", "a", "-", "z", "A", "-", "Z", "0", "-", "9", "_", ".", "+", "\\", "-", "]", "+", "@", "[", "a", "-", "z", "A", "-", "Z", "0", "-", "9", "\\", "-", "]", "+", "\\", ".", "[", "a", "-", "z", "A", "-", "Z", "0", "-", "9", "-", ".", "]", "+", "$", ")">>,
     <<"(", "^", "[", "a", "-", "z", "A", "-", "Z", "0", "-", "9", "_", "+", "-", ".", "]", "+", "@", "[", "a", "-", "z", "A", "-", "Z", "0", "-", "9", "-", ".", "]", "+", "\\", ".", "[", "a", "-", "z", "A", "-", "Z", "0", "-", "9", "-", ".", "]", "+", "$", ")">>,
     <<"(", "^", "[", "a", "-", "z", "A", "-", "Z", "0", "-", "9", "_", "+", "-", ".", "]", "+", "@", "[", "a", "-", "z", "A", "-", "Z", "0", "-", "9", "\\", "-", ".", "]", "+", "\\", ".", "[", "a", "-", "z", "A", "-", "Z", "0", "-", "9", "-", ".", "]", "+", "$", ")">>,
     <<"(", "^", "[", "a", "-", "z", "A", "-", "Z", "0", "-", "9", "_", "+", "-", ".", "]", "+", "@", "[", "a", "-", "z", "A", "-", "Z", "0", "-", "9", ".", "\\", "-", "]", "+", "\\", ".", "[", "a", "-", "z", "A", "-", "Z", "0", "-", "9", "-", ".", "]", "+", "$", ")">>,
     <<"(", "^", "[", "a", "-", "z", "A", "-", "Z", "0", "-", "9", "_", "+", "-", ".", "]", "+", "@", "[", "a", "-", "z", "A", "-", "Z", "0", "-", "9", "-", "\\", ".", "]", "+", "\\", ".", "[", "a", "-", "z", "A", "-", "Z", "0", "-", "9", "-", ".", "]", "+", "$", ")">>
  >>

----------------------------------------------------------------------------
(* Python's re, as used by pd_series.str.match( pat=my_rgx): the parser of *)
(* a pattern (sre_parse) restricted to the constructs the candidate        *)
(* patterns use -- groups, ^, $, literals, escaped literals, ".",          *)
(* bracket expressions and the "+" repeat -- and the matcher.              *)

\* (variant: an escaped hyphen is lost instead of becoming a literal)
ClassEscapeDropsHyphen(c) ==
  IF c = "-" THEN {} ELSE {c}

\* an escaped character inside a bracket expression is that literal
\* (the candidate patterns escape only "-" and ".")
ClassEscape(c) ==
  {c}

\* (variant: the range leaves out its lower endpoint)
ClassRangeOpenLow(lo, hi) ==
  {c \in Chars : Ord(lo) < Ord(c) /\ Ord(c) <= Ord(hi)}

\* the members of the range lo-hi: every character collating between them
ClassRange(lo, hi) ==
  {c \in Chars : Ord(lo) <= Ord(c) /\ Ord(c) <= Ord(hi)}

\* (variant: a hyphen directly before "]" is dropped)
ClassTrailingHyphenDropped(code1) ==
  code1

\* "-" directly before the closing "]": code1 and the hyphen are literals
ClassTrailingHyphen(code1) ==
  code1 \cup {"-"}

ClassError ==
  [ok |-> FALSE, chars |-> {}, next |-> 0]

\* The scan of a bracket expression from index i of pattern p (just after
\* "[" and an optional "^") up to its closing "]".  acc: the members
\* collected so far; empty: nothing was collected yet, so "]" is a literal.
RECURSIVE ParseClassBody(_, _, _, _)
ParseClassBody(p, i, acc, empty) ==
  IF i > Len(p) THEN ClassError                 \* unterminated character set
  ELSE IF p[i] = "]" /\ ~empty THEN [ok |-> TRUE, chars |-> acc, next |-> i + 1]
  ELSE IF p[i] = "\\" /\ i + 1 > Len(p) THEN ClassError
  ELSE
    LET esc1  == p[i] = "\\"
        code1 == IF esc1 THEN ClassEscape(p[i + 1]) ELSE {p[i]}
        lo    == IF esc1 THEN p[i + 1] ELSE p[i]
        j     == IF esc1 THEN i + 2 ELSE i + 1
    IN  IF j <= Len(p) /\ p[j] = "-"
        THEN IF j + 1 > Len(p) THEN ClassError
             ELSE IF p[j + 1] = "]"
             THEN [ok |-> TRUE, chars |-> acc \cup ClassTrailingHyphen(code1),
                   next |-> j + 2]
             ELSE IF p[j + 1] = "\\" /\ j + 2 > Len(p) THEN ClassError
             ELSE
               LET esc2 == p[j + 1] = "\\"
                   hi   == IF esc2 THEN p[j + 2] ELSE p[j + 1]
                   k    == IF esc2 THEN j + 3 ELSE j + 2
               IN  IF Ord(hi) < Ord(lo) THEN ClassError    \* bad character range
                   ELSE ParseClassBody(p, k, acc \cup ClassRange(lo, hi), FALSE)
        ELSE ParseClassBody(p, j, acc \cup code1, FALSE)

\* A bracket expression starting at p[i] = "[".
ParseClass(p, i) ==
  LET negate == i + 1 <= Len(p) /\ p[i + 1] = "^"
      r      == ParseClassBody(p, IF negate THEN i + 2 ELSE i + 1, {}, TRUE)
  IN  IF r.ok /\ negate THEN [r EXCEPT !.chars = Chars \ r.chars] ELSE r

Item(kind, chars) ==
  [kind |-> kind, chars |-> chars, plus |-> FALSE]

ParseError ==
  [ok |-> FALSE, items |-> <<>>]

\* The items of pattern p from index i on.  The parentheses of a group do
\* not change whether a string matches and produce no item.
RECURSIVE ParseItems(_, _, _)
ParseItems(p, i, items) ==
  IF i > Len(p) THEN [ok |-> TRUE, items |-> items]
  ELSE IF p[i] \in {"(", ")"} THEN ParseItems(p, i + 1, items)
  ELSE IF p[i] = "^" THEN ParseItems(p, i + 1, Append(items, Item("at_beginning", {})))
  ELSE IF p[i] = "$" THEN ParseItems(p, i + 1, Append(items, Item("at_end", {})))
  ELSE IF p[i] = "+"
  THEN IF items = <<>> \/ items[Len(items)].kind # "in" \/ items[Len(items)].plus
       THEN ParseError                           \* nothing to repeat / multiple repeat
       ELSE ParseItems(p, i + 1, [items EXCEPT ![Len(items)].plus = TRUE])
  ELSE IF p[i] = "["
  THEN LET r == ParseClass(p, i)
       IN  IF r.ok THEN ParseItems(p, r.next, Append(items, Item("in", r.chars)))
           ELSE ParseError
  ELSE IF p[i] = "\\"
  THEN IF i + 1 > Len(p) THEN ParseError         \* bad escape (end of pattern)
       ELSE ParseItems(p, i + 2, Append(items, Item("in", {p[i + 1]})))
  ELSE IF p[i] = "." THEN ParseItems(p, i + 1, Append(items, Item("in", Chars)))
  ELSE ParseItems(p, i + 1, Append(items, Item("in", {p[i]})))

re_compile(p) ==
  ParseItems(p, 1, <<>>)

\* The positions of string s (0 = before the first character) at which the
\* match can stand after item, given the positions P it can stand at before.
MatchItem(item, P, s) ==
  IF item.kind = "at_beginning" THEN P \cap {0}
  ELSE IF item.kind = "at_end" THEN P \cap {Len(s)}
  ELSE IF item.plus
  THEN {j \in 1..Len(s) :
          \E i \in P : i < j /\ \A k \in (i + 1)..j : s[k] \in item.chars}
  ELSE {i + 1 : i \in {q \in P : q < Len(s) /\ s[q + 1] \in item.chars}}

RECURSIVE MatchItems(_, _, _, _)
MatchItems(items, k, P, s) ==
  IF k > Len(items) THEN P
  ELSE MatchItems(items, k + 1, MatchItem(items[k], P, s), s)

\* re.match( p, s): "error" when p does not compile, else whether p matches
\* at the beginning of s.
re_match(p, s) ==
  LET c == re_compile(p)
  IN  IF ~c.ok THEN "error"
      ELSE IF MatchItems(c.items, 1, {0}, s) # {} THEN "match" ELSE "no_match"

----------------------------------------------------------------------------
(* pandas / cuDF / numpy objects.  A Series is its index labels, its       *)
(* values and its dtype; a numpy array and a Python list have values and   *)
(* no index labels.  A bool is stored as 1 or 0, as numpy compares it with *)
(* numbers.                                                                *)

\* the default index of a new Series: 0, 1, ..., n - 1
RangeIndex(n) ==
  [k \in 1..n |-> k - 1]

\* pd.Series( a list) / cudf.Series( a list)
Series(values, dtype) ==
  [type |-> "Series", index |-> RangeIndex(Len(values)), values |-> values,
   dtype |-> dtype]

\* the positions of the entries of a list or Series that are not nan
NotNaPositions(values) ==
  SelectSeq([k \in 1..Len(values) |-> k], LAMBDA k : values[k] # np_nan)

\* Series.dropna(): the non-missing entries, each keeping its index label
dropna(s) ==
  LET keep == NotNaPositions(s.values)
  IN  [type   |-> "Series",
       index  |-> [k \in 1..Len(keep) |-> s.index[keep[k]]],
       values |-> [k \in 1..Len(keep) |-> s.values[keep[k]]],
       dtype  |-> s.dtype]

\* str( emailadr): the text of a str, 'nan' for the float nan
str(e) ==
  IF e.tag = "float" THEN <<"n", "a", "n">> ELSE e.val

\* (variant: the filter compares with 'NaN', which no str() produces)
ShowListWrongSpelling(list) ==
  SelectSeq(list, LAMBDA e : str(e) # <<"N", "a", "N">>)

\* [ emailadr for emailadr in test_data_list if str(emailadr) != 'nan']
ShowList(list) ==
  SelectSeq(list, LAMBDA e : str(e) # <<"n", "a", "n">>)

\* Series.str.match( pat) as Python's re decides it: re.match on every
\* element, a bool Series on the same index; raises when pat does not compile
str_match(s, pat) ==
  IF ~re_compile(pat).ok
  THEN [raised |-> TRUE, result |-> Series(<<>>, "bool")]
  ELSE [raised |-> FALSE,
        result |-> [type   |-> "Series",
                    index  |-> s.index,
                    values |-> [k \in 1..Len(s.values) |->
                                  IF re_match(pat, s.values[k].val) = "match" THEN 1 ELSE 0],
                    dtype  |-> "bool"]]

\* Series.equals( other): same index labels, same dtype, same values
equals(a, b) ==
  /\ a.index = b.index
  /\ a.dtype = b.dtype
  /\ a.values = b.values

\* cudf.Series.to_pandas(): the same labels and values in a pandas Series
to_pandas(s) ==
  [type |-> "Series", index |-> s.index, values |-> s.values, dtype |-> s.dtype]

\* cudf.Series( a list) / the result of a cuDF operation: a Series on the GPU
CuSeries(s) ==
  [type |-> "cudf.Series", index |-> s.index, values |-> s.values, dtype |-> s.dtype]

\* Series.to_numpy(): the values without the index
to_numpy(s) ==
  [type |-> "ndarray", index |-> <<>>, values |-> s.values, dtype |-> s.dtype]

\* np.empty( n): n cells holding whatever the memory holds
np_empty(n) ==
  [k \in 1..n |-> [init |-> FALSE, v |-> 0]]

\* line 115
err_match_value ==
  -1

\* cu_error_matches = np.empty( size); cu_error_matches[:] = err_match_value;
\* cudf.Series.from_pandas( cu_error_matches): a float Series on a new index
ErrorSeries(size) ==
  CuSeries(Series([k \in 1..size |-> err_match_value], "float64"))

\* the state of a name that no statement has bound yet
Unbound ==
  [type |-> "unbound", index |-> <<>>, values |-> <<>>, dtype |-> "unbound"]

\* dict.update( {key: col}): replaces the value of key, or adds it at the end
dict_update(d, key, col) ==
  IF \E k \in 1..Len(d) : d[k].key = key
  THEN [k \in 1..Len(d) |-> IF d[k].key = key THEN [key |-> key, col |-> col] ELSE d[k]]
  ELSE Append(d, [key |-> key, col |-> col])

\* a Python list as a column of the result dict
List(values) ==
  [type |-> "list", index |-> <<>>, values |-> values, dtype |-> "object"]

----------------------------------------------------------------------------
(* Bounds of the model.                                                    *)

\* how many (engine, pattern) evaluations may raise in one world
MaxFailures ==
  2

\* on how many patterns cuDF may return a result that differs from pandas'
MaxDisagree ==
  1

\* how many times the comparison cell is executed in one session
MaxRuns ==
  2

----------------------------------------------------------------------------
(* The notebook session.                                                   *)

VARIABLES
  pc,                          \* the statement the session is at
  run,                         \* which execution of the comparison cell
  ii,                          \* the loop index (0-based, as enumerate gives it)
  pd_engine,                   \* per pattern: does pandas' str.match raise
  cu_engine,                   \* per pattern: what cuDF's str.match does
  pd_matches, cu_matches,
  results_by_data_point_dict,
  are_regex_results_equal,
  rgx_df, results_df,
  output,                      \* what the running cell has printed and displayed
  first_run,                   \* history: how the first execution ended
  rx_pattern, rx_string, rx_result   \* a single re.match call (SpecRegex)

vars ==
  <<pc, run, ii, pd_engine, cu_engine, pd_matches, cu_matches, results_by_data_point_dict, are_regex_results_equal,
    rgx_df, results_df, output, first_run, rx_pattern, rx_string, rx_result>>

engines == <<pd_engine, cu_engine>>
tables  == <<rgx_df, results_df>>
rx      == <<rx_pattern, rx_string, rx_result>>

(* Cell 1600cf6c.  Nothing rebinds its names afterwards.                   *)
pd_raw_series ==
  Series(test_data_list, "object")

cu_raw_series ==
  CuSeries(Series(test_data_list, "object"))

pd_series ==
  dropna(pd_raw_series)

cu_series ==
  CuSeries(dropna(cu_raw_series))

test_data_to_show ==
  ShowList(test_data_list)

\* the loop indexes of the candidate patterns
RegexIndexes ==
  0..(Len(candidate_regexes) - 1)

NoFrame ==
  [index |-> <<>>, columns |-> <<>>]

NoRun ==
  [pc |-> "none", results |-> <<>>, flags |-> <<>>, rgx_df |-> NoFrame,
   results_df |-> NoFrame, output |-> <<>>]

\* the rows of the non-missing test strings that contain a hyphen
HyphenRows ==
  {k \in 1..Len(cu_series.values) :
     \E n \in 1..Len(cu_series.values[k].val) : cu_series.values[k].val[n] = "-"}

\* what Python's re gives for every candidate pattern on the test strings
\* (a pattern is compiled and matched once per distinct pattern)
ReResults ==
  [i \in RegexIndexes |-> str_match(pd_series, candidate_regexes[i + 1])]

\* pd_series.str.match( pat=my_rgx) in iteration i
PdStrMatch(i) ==
  IF pd_engine[i] = "raise"
  THEN [raised |-> TRUE, result |-> Unbound]
  ELSE ReResults[i]

\* cu_series.str.match( pat=my_rgx) in iteration i.  cuDF's regex engine is
\* not Python's: it raises, or returns what re returns, or returns a result
\* that differs from it -- here on the addresses that contain a hyphen.
CuStrMatch(i) ==
  LET r == ReResults[i]
  IN  IF cu_engine[i] = "raise" \/ r.raised
      THEN [raised |-> TRUE, result |-> Unbound]
      ELSE [raised |-> FALSE,
            result |-> CuSeries([r.result EXCEPT !.values =
                         [k \in 1..Len(r.result.values) |->
                            IF cu_engine[i] = "differ" /\ k \in HyphenRows
                            THEN 1 - r.result.values[k] ELSE r.result.values[k]]])]

\* pd.DataFrame.from_dict( d): the rows are labelled by the index of the
\* Series columns (or 0..n-1 when there is none); every column must have as
\* many values as there are labels, else ValueError
from_dict(d) ==
  LET series == {k \in 1..Len(d) : d[k].col.type = "Series"}
      index  == IF series # {}
                THEN d[CHOOSE k \in series : \A m \in series : k <= m].col.index
                ELSE IF d = <<>> THEN <<>> ELSE RangeIndex(Len(d[1].col.values))
  IN  IF \A k \in 1..Len(d) : Len(d[k].col.values) = Len(index)
      THEN [raised |-> FALSE,
            frame  |-> [index   |-> index,
                        columns |-> [k \in 1..Len(d) |->
                                       [key |-> d[k].key, values |-> d[k].col.values]]]]
      ELSE [raised |-> TRUE, frame |-> NoFrame]

\* are_regex_results_equal > 0: a cell never assigned holds garbage, so
\* either truth value can come out of it
FlagsShown(cells) ==
  {f \in [1..Len(cells) -> BOOLEAN] :
     \A k \in 1..Len(cells) : cells[k].init => (f[k] = (cells[k].v > 0))}

RxOff ==
  /\ rx_pattern = <<>>
  /\ rx_string = <<>>
  /\ rx_result = "off"

\* the session after the import cell and cell 1600cf6c: no name of the
\* comparison cell is bound
KernelInit ==
  /\ run = 1
  /\ ii = 0
  /\ pd_matches = Unbound
  /\ cu_matches = Unbound
  /\ results_by_data_point_dict = <<>>
  /\ are_regex_results_equal = <<>>
  /\ rgx_df = NoFrame
  /\ results_df = NoFrame
  /\ output = <<>>
  /\ first_run = NoRun

Init ==
  /\ KernelInit
  /\ pc = "loop_init"
  /\ pd_engine \in [RegexIndexes -> {"ok", "raise"}]
  /\ cu_engine \in [RegexIndexes -> {"same", "differ", "raise"}]
  /\ Cardinality({i \in RegexIndexes : pd_engine[i] = "raise"})
       + Cardinality({i \in RegexIndexes : cu_engine[i] = "raise"}) <= MaxFailures
  /\ Cardinality({i \in RegexIndexes : cu_engine[i] = "differ"}) <= MaxDisagree
  /\ RxOff

\* cell 69308302 up to the for statement
LoopInit ==
  /\ pc = "loop_init"
  /\ results_by_data_point_dict' = <<[key |-> <<"email">>, col |-> List(test_data_to_show)]>>
  /\ are_regex_results_equal' = np_empty(Len(candidate_regexes))
  /\ ii' = 0
  /\ output' = <<>>
  /\ pc' = "pd"
  /\ UNCHANGED <<run, engines, pd_matches, cu_matches, tables, first_run, rx>>

\* (variant: the except branch gives pd_matches the -1 fallback that the
\* cuDF branch gives cu_matches)
PdMatchWithFallback ==
  /\ pc = "pd"
  /\ LET r == PdStrMatch(ii)
     IN  IF r.raised
         THEN /\ output' = Append(output, "Error running pandas series.")
              /\ pd_matches' = to_pandas(ErrorSeries(Len(pd_series.values)))
         ELSE /\ pd_matches' = r.result
              /\ UNCHANGED output
  /\ pc' = "cu"
  /\ UNCHANGED <<run, ii, engines, cu_matches, results_by_data_point_dict,
                 are_regex_results_equal, tables, first_run, rx>>

\* try: pd_matches = pd_series.str.match( pat=my_rgx)   except: print
PdMatch ==
  /\ pc = "pd"
  /\ LET r == PdStrMatch(ii)
     IN  IF r.raised
         THEN /\ output' = Append(output, "Error running pandas series.")
              /\ UNCHANGED pd_matches
         ELSE /\ pd_matches' = r.result
              /\ UNCHANGED output
  /\ pc' = "cu"
  /\ UNCHANGED <<run, ii, engines, cu_matches, results_by_data_point_dict,
                 are_regex_results_equal, tables, first_run, rx>>

\* try: cu_matches = cu_series.str.match( pat=my_rgx)
\* except Exception as e: the -1 array of pd_matches.size cells
CuMatch ==
  /\ pc = "cu"
  /\ LET r == CuStrMatch(ii)
     IN  IF ~r.raised
         THEN /\ cu_matches' = r.result
              /\ pc' = "record"
              /\ UNCHANGED output
         ELSE IF pd_matches = Unbound
         THEN /\ pc' = "crashed"
              /\ output' = Append(output, "NameError: name 'pd_matches' is not defined")
              /\ UNCHANGED cu_matches
         ELSE /\ cu_matches' = ErrorSeries(Len(pd_matches.values))
              /\ output' = output \o <<"cuDF exception",
                   "Error running cuDF series.  Setting regex match value to -1.">>
              /\ pc' = "record"
  /\ UNCHANGED <<run, ii, engines, pd_matches, results_by_data_point_dict,
                 are_regex_results_equal, tables, first_run, rx>>

\* (variant: an iteration that finds pd_matches unbound is skipped, the
\* NameError swallowed, instead of ending the cell)
RecordSkipsUnbound ==
  /\ pc = "record"
  /\ IF pd_matches = Unbound
     THEN UNCHANGED <<results_by_data_point_dict, are_regex_results_equal>>
     ELSE /\ results_by_data_point_dict' =
               dict_update(dict_update(results_by_data_point_dict,
                                       <<"pd-regex", ii>>, pd_matches),
                           <<"cu-regex", ii>>, to_numpy(cu_matches))
          /\ are_regex_results_equal' =
               [are_regex_results_equal EXCEPT ![ii + 1] =
                  [init |-> TRUE,
                   v |-> IF equals(pd_matches, to_pandas(cu_matches)) THEN 1 ELSE 0]]
  /\ IF ii + 1 < Len(candidate_regexes)
     THEN ii' = ii + 1 /\ pc' = "pd"
     ELSE ii' = ii /\ pc' = "display"
  /\ UNCHANGED <<run, engines, pd_matches, cu_matches, tables, output, first_run, rx>>

\* this_run_dict, results_by_data_point_dict.update, are_regex_results_equal[ii]
Record ==
  /\ pc = "record"
  /\ IF pd_matches = Unbound
     THEN /\ pc' = "crashed"
          /\ output' = Append(output, "NameError: name 'pd_matches' is not defined")
          /\ UNCHANGED <<ii, results_by_data_point_dict, are_regex_results_equal>>
     ELSE /\ results_by_data_point_dict' =
               dict_update(dict_update(results_by_data_point_dict,
                                       <<"pd-regex", ii>>, pd_matches),
                           <<"cu-regex", ii>>, to_numpy(cu_matches))
          /\ are_regex_results_equal' =
               [are_regex_results_equal EXCEPT ![ii + 1] =
                  [init |-> TRUE,
                   v |-> IF equals(pd_matches, to_pandas(cu_matches)) THEN 1 ELSE 0]]
          /\ IF ii + 1 < Len(candidate_regexes)
             THEN ii' = ii + 1 /\ pc' = "pd"
             ELSE ii' = ii /\ pc' = "display"
          /\ UNCHANGED output
  /\ UNCHANGED <<run, engines, pd_matches, cu_matches, tables, first_run, rx>>

\* rgx_df, display( rgx_df), results_df, display( results_df)
Display ==
  /\ pc = "display"
  /\ \E f \in FlagsShown(are_regex_results_equal) :
       rgx_df' = [index   |-> RangeIndex(Len(candidate_regexes)),
                  columns |-> <<[key |-> <<"Candidate Regex">>, values |-> candidate_regexes],
                                [key |-> <<"Do Pandas and cuDF Match">>, values |-> f]>>]
  /\ LET r == from_dict(results_by_data_point_dict)
     IN  IF r.raised
         THEN /\ pc' = "crashed"
              /\ output' = output \o <<"display rgx_df", "ValueError">>
              /\ UNCHANGED results_df
         ELSE /\ results_df' = r.frame
              /\ output' = output \o <<"display rgx_df", "display results_df">>
              /\ pc' = "done"
  /\ UNCHANGED <<run, ii, engines, pd_matches, cu_matches,
                 results_by_data_point_dict, are_regex_results_equal, first_run, rx>>

\* how the execution of the comparison cell that just ended went
RunOutcome ==
  [pc |-> pc, results |-> results_by_data_point_dict,
   flags |-> are_regex_results_equal, rgx_df |-> rgx_df, results_df |-> results_df,
   output |-> output]

\* the comparison cell is executed again in the same session: every name
\* bound by the earlier execution is still bound
Rerun ==
  /\ pc \in {"done", "crashed"}
  /\ run < MaxRuns
  /\ run' = run + 1
  /\ first_run' = IF run = 1 THEN RunOutcome ELSE first_run
  /\ pc' = "loop_init"
  /\ UNCHANGED <<ii, engines, pd_matches, cu_matches, results_by_data_point_dict,
                 are_regex_results_equal, tables, output, rx>>

Next ==
  \/ LoopInit
  \/ PdMatch
  \/ CuMatch
  \/ Record
  \/ Display
  \/ Rerun

Spec ==
  Init /\ [][Next]_vars

----------------------------------------------------------------------------
(* A single call of re.match( pattern, string), for the claims about the  *)
(* patterns.  The patterns are the candidates, the three spellings of the  *)
(* domain-tail class on their own, and every candidate with its tail class *)
(* respelled; the strings are the test strings and every single character. *)

ClassHyphenMiddle ==
  <<"[", "a", "-", "z", "A", "-", "Z", "0", "-", "9", "-", ".", "]">>
ClassHyphenLast ==
  <<"[", "a", "-", "z", "A", "-", "Z", "0", "-", "9", ".", "-", "]">>
ClassHyphenEscaped ==
  <<"[", "a", "-", "z", "A", "-", "Z", "0", "-", "9", "\\", "-", ".", "]">>

ClassForms ==
  {ClassHyphenMiddle, ClassHyphenLast, ClassHyphenEscaped}

LastIndexOf(p, c) ==
  CHOOSE i \in 1..Len(p) : p[i] = c /\ \A j \in (i + 1)..Len(p) : p[j] # c

\* pattern p with its last bracket expression replaced by the class f
WithTail(p, f) ==
  SubSeq(p, 1, LastIndexOf(p, "[") - 1) \o f \o SubSeq(p, LastIndexOf(p, "]") + 1, Len(p))

Candidates ==
  {candidate_regexes[i] : i \in 1..Len(candidate_regexes)}

RxPatterns ==
  Candidates \cup ClassForms \cup {WithTail(p, f) : p \in Candidates, f \in ClassForms}

RxStrings ==
  {pd_series.values[k].val : k \in 1..Len(pd_series.values)} \cup {<<c>> : c \in Chars}

RxInit ==
  /\ KernelInit
  /\ pc = "off"
  /\ pd_engine = [i \in RegexIndexes |-> "ok"]
  /\ cu_engine = [i \in RegexIndexes |-> "same"]
  /\ rx_pattern \in RxPatterns
  /\ rx_string \in RxStrings
  /\ rx_result = "pending"

RxMatch ==
  /\ rx_result = "pending"
  /\ rx_result' = re_match(rx_pattern, rx_string)
  /\ UNCHANGED <<pc, run, ii, engines, pd_matches, cu_matches,
                 results_by_data_point_dict, are_regex_results_equal, tables, output,
                 first_run, rx_pattern, rx_string>>

SpecRegex ==
  RxInit /\ [][RxMatch]_vars

----------------------------------------------------------------------------
(* Properties of the session and of the patterns.                          *)

HasKey(d, key) ==
  \E k \in 1..Len(d) : d[k].key = key

Get(d, key) ==
  d[CHOOSE k \in 1..Len(d) : d[k].key = key].col

PdRaised(i) ==
  PdStrMatch(i).raised

CuRaised(i) ==
  CuStrMatch(i).raised

\* iteration i of the running execution of the cell has recorded its results
Recorded(i) ==
  \/ pc \in {"display", "done"}
  \/ pc \in {"pd", "cu", "record", "crashed"} /\ ii > i

Flag(i) ==
  are_regex_results_equal[i + 1]

AllSentinel(col) ==
  \A k \in 1..Len(col.values) : col.values[k] = err_match_value

\* the latest pattern before i on which pandas did not raise, pattern
\* `also` counted as one of them
LastBound(i, also) ==
  CHOOSE k \in 0..(i - 1) :
    /\ k = also \/ ~PdRaised(k)
    /\ \A m \in (k + 1)..(i - 1) : m # also /\ PdRaised(m)

\* what iteration j records when no engine fails on pattern i < j
ExpectedPd(j, i) ==
  IF PdRaised(j) THEN ReResults[LastBound(j, i)].result ELSE PdStrMatch(j).result

ExpectedCu(j, i) ==
  IF CuRaised(j) THEN ErrorSeries(Len(ExpectedPd(j, i).values)) ELSE CuStrMatch(j).result

\* C1: a failure of an engine on pattern i neither aborts the loop nor
\* changes what a later pattern j records: when the cell has ended, pattern j
\* has its pd-regex-j and cu-regex-j columns and its agreement flag, equal to
\* what they would be had no engine failed on pattern i.
C1_FailureIsolation ==
  \A i \in RegexIndexes : \A j \in RegexIndexes :
    (i < j /\ (PdRaised(i) \/ CuRaised(i)) /\ pc \in {"done", "crashed"})
    => /\ HasKey(results_by_data_point_dict, <<"pd-regex", j>>)
       /\ HasKey(results_by_data_point_dict, <<"cu-regex", j>>)
       /\ Get(results_by_data_point_dict, <<"pd-regex", j>>) = ExpectedPd(j, i)
       /\ Get(results_by_data_point_dict, <<"cu-regex", j>>) = to_numpy(ExpectedCu(j, i))
       /\ Flag(j) = [init |-> TRUE,
                     v |-> IF equals(ExpectedPd(j, i), to_pandas(ExpectedCu(j, i)))
                           THEN 1 ELSE 0]

\* C2: whenever cuDF fails on pattern i, the loop goes on to the recording
\* of pattern i, the cu-regex-i column holds one -1 per non-missing test
\* string, -1 is no boolean match result, and the agreement flag of pattern
\* i is false.
C2_CuFailureSentinel ==
  \A i \in RegexIndexes :
    CuRaised(i) =>
      /\ ~(pc = "crashed" /\ ii = i)
      /\ (pc = "record" /\ ii = i) =>
            /\ cu_matches.values = [k \in 1..Len(pd_series.values) |-> err_match_value]
            /\ err_match_value \notin {0, 1}
      /\ Recorded(i) =>
            /\ Get(results_by_data_point_dict, <<"cu-regex", i>>).values
                 = [k \in 1..Len(pd_series.values) |-> err_match_value]
            /\ Flag(i) = [init |-> TRUE, v |-> 0]

\* C3: the agreement flag recorded for pattern i is true exactly when both
\* engines evaluated pattern i and their results are equal on every
\* non-missing test string; a pattern on which an engine failed is never
\* flagged as agreeing.
C3_FlagIffAgreement ==
  \A i \in RegexIndexes :
    Recorded(i) =>
      /\ Flag(i).init
      /\ (Flag(i).v > 0) <=>
           /\ ~PdRaised(i)
           /\ ~CuRaised(i)
           /\ \A k \in 1..Len(pd_series.values) :
                PdStrMatch(i).result.values[k] = CuStrMatch(i).result.values[k]

\* C4: a pattern that an engine fails to evaluate contributes -1 to every
\* row of that engine's column for the pattern, never a boolean.
C4_FailureIsSentinel ==
  \A i \in RegexIndexes :
    Recorded(i) =>
      /\ PdRaised(i) => AllSentinel(Get(results_by_data_point_dict, <<"pd-regex", i>>))
      /\ CuRaised(i) => AllSentinel(Get(results_by_data_point_dict, <<"cu-regex", i>>))

\* the test list with its one missing entry taken out, the rest in order
NonMissing ==
  LET m == CHOOSE k \in 1..Len(test_data_list) : test_data_list[k] = np_nan
  IN  SubSeq(test_data_list, 1, m - 1) \o SubSeq(test_data_list, m + 1, Len(test_data_list))

\* C5: the strings matched by pandas, the strings matched by cuDF and the
\* strings shown are each the 13 entries of test_data_list without the
\* missing one, in their order, and every column of the result dict and of
\* the displayed result table has 12 rows, those of the 12 strings shown.
C5_MissingExcluded ==
  /\ Len(test_data_list) = 13
  /\ Len(NonMissing) = 12
  /\ pd_series.values = NonMissing
  /\ cu_series.values = NonMissing
  /\ test_data_to_show = NonMissing
  /\ \A k \in 1..Len(results_by_data_point_dict) :
       /\ Len(results_by_data_point_dict[k].col.values) = 12
       /\ results_by_data_point_dict[k].col.type = "Series"
            => results_by_data_point_dict[k].col.index = pd_series.index
  /\ HasKey(results_by_data_point_dict, <<"email">>)
       => Get(results_by_data_point_dict, <<"email">>).values = NonMissing
  /\ pc = "done" =>
       /\ Len(results_df.index) = 12
       /\ \A k \in 1..Len(results_df.columns) : Len(results_df.columns[k].values) = 12
       /\ results_df.columns[1].values = NonMissing

C5_Witness ==
  /\ pc = "done"
  /\ Len(results_df.columns) = 1 + 2 * Len(candidate_regexes)
  /\ Len(results_df.index) = 12

\* "hi-there@whats-up.yo"
HyphenBoth ==
  <<"h", "i", "-", "t", "h", "e", "r", "e", "@", "w", "h", "a", "t", "s", "-", "u", "p", ".", "y", "o">>

\* "hi_there@whats_up.yo"
UnderscoreBoth ==
  <<"h", "i", "_", "t", "h", "e", "r", "e", "@", "w", "h", "a", "t", "s", "_", "u", "p", ".", "y", "o">>

\* "hi-there@whatsup.yo"
HyphenLocal ==
  <<"h", "i", "-", "t", "h", "e", "r", "e", "@", "w", "h", "a", "t", "s", "u", "p", ".", "y", "o">>

\* C6 as stated: candidate_regexes[0] matches "hi-there@whats-up.yo" and also
\* matches "hi_there@whats_up.yo".
C6_BothMatch ==
  (rx_result # "pending" /\ rx_pattern = candidate_regexes[1]
     /\ rx_string \in {HyphenBoth, UnderscoreBoth})
  => rx_result = "match"

\* C6 as amended: candidate_regexes[0] matches "hi-there@whats-up.yo" and does
\* not match "hi_there@whats_up.yo" (the host class has no underscore).
C6_HyphenMatchesUnderscoreHostDoesNot ==
  (rx_result # "pending" /\ rx_pattern = candidate_regexes[1])
  => /\ rx_string = HyphenBoth => rx_result = "match"
     /\ rx_string = UnderscoreBoth => rx_result = "no_match"

C6_Witness ==
  /\ rx_pattern = candidate_regexes[1]
  /\ rx_string = UnderscoreBoth
  /\ rx_result = "no_match"

TestStrings ==
  {NonMissing[k].val : k \in 1..Len(NonMissing)}

C9_RerunIdempotent ==
  (run > 1 /\ pc \in {"done", "crashed"}) => RunOutcome = first_run

C9_Witness ==
  /\ run = 2
  /\ pc = "done"
  /\ \E i \in RegexIndexes : PdRaised(i)

\* C10: when pandas fails on pattern i the failure is printed and pd_matches
\* keeps its binding.  For i > 0 iteration i records, as pd-regex-i, the
\* result of the latest earlier pattern pandas evaluated, sizes the cuDF
\* sentinel array by it and computes the flag from it.  For i = 0 pd_matches
\* is unbound and the cell ends in a NameError with no column, no flag and
\* no table.
C10_PandasFailureKeepsPriorResult ==
  \A i \in RegexIndexes :
    PdRaised(i) =>
      /\ (pc = "cu" /\ ii = i) =>
           /\ output[Len(output)] = "Error running pandas series."
           /\ pd_matches = IF i = 0 THEN Unbound ELSE ReResults[LastBound(i, -1)].result
      /\ (i > 0 /\ Recorded(i)) =>
           LET prior == ReResults[LastBound(i, -1)].result
               cu    == IF CuRaised(i) THEN ErrorSeries(Len(prior.values))
                        ELSE CuStrMatch(i).result
           IN  /\ Get(results_by_data_point_dict, <<"pd-regex", i>>) = prior
               /\ Get(results_by_data_point_dict, <<"cu-regex", i>>) = to_numpy(cu)
               /\ Flag(i) = [init |-> TRUE,
                             v |-> IF equals(prior, to_pandas(cu)) THEN 1 ELSE 0]
      /\ (i = 0 /\ pc # "loop_init") =>
           /\ ii = 0
           /\ pc \in {"pd", "cu", "record", "crashed"}
           /\ pc \in {"cu", "record", "crashed"} => pd_matches = Unbound
           /\ pc = "crashed" =>
                output[Len(output)] = "NameError: name 'pd_matches' is not defined"
           /\ results_by_data_point_dict = <<[key |-> <<"email">>, col |-> List(test_data_to_show)]>>
           /\ \A k \in 1..Len(are_regex_results_equal) : ~are_regex_results_equal[k].init
           /\ rgx_df = NoFrame
           /\ results_df = NoFrame

C10_Witness ==
  /\ pc = "done"
  /\ \E i \in RegexIndexes : i > 0 /\ PdRaised(i) /\ CuRaised(i)

====
